---- MODULE Spec2Model ----
(***************************************************************************)
(* A model of the aurora / polars_mas association-study tool:              *)
(*   - polars_firth_regression   (src/src/polars_mas/model_funcs.py)       *)
(*   - multiple_association_study, _validate_args,                         *)
(*     _match_columns_to_indices (src/src/polars_mas/__init__.py)          *)
(*   - PhewasFrame.handle_missing, PhewasFrame.filter_by_count             *)
(*                               (src/src/aurora/polars_aurora.py)         *)
(*   - aurora                    (src/src/aurora/main.py)                  *)
(***************************************************************************)
EXTENDS Integers, Sequences, FiniteSets, TLC

\* ------------------------------------------------------------------ bounds
\* Largest number of rows of a (predictor, dependent) group.
MaxGroupRows == 3
\* Largest min_cases threshold handed to the regression / the count filter.
MaxMinCases == 2

\* ----------------------------------------------------------------- helpers
RECURSIVE Sum(_)
Sum(s) == IF s = <<>> THEN 0 ELSE Head(s) + Sum(Tail(s))

Range(s) == {s[i] : i \in DOMAIN s}

SeqsUpTo(S, n) == UNION {[1..k -> S] : k \in 0..n}

SeqsOfLen(S, n) == [1..n -> S]

Min2(a, b) == IF a <= b THEN a ELSE b

VARIABLES
  \* polars_firth_regression
  regframe,       \* the unnested struct column: one sequence per column
  min_cases,      \* the min_cases argument
  fpc,            \* position in polars_firth_regression
  X,              \* names of the columns of the design matrix X
  output_struct,  \* the result dict under construction
  fl,             \* the fitted FirthLogisticRegression, <<>> before the fit
  exc,            \* <<msg>> while an exception travels, <<>> otherwise
  raised,         \* history: the messages of the exceptions the fit raised
  results,        \* the records returned to the caller
  escaped         \* an exception left polars_firth_regression

firthVars ==
  <<regframe, min_cases, fpc, X, output_struct, fl, exc, raised, results, escaped>>

VARIABLES
  \* _match_columns_to_indices, called on its own
  indices,        \* the index expression, a sequence of characters
  matched,        \* <<>> before the call, then <<its outcome>>
  \* multiple_association_study
  env,            \* the file system and the machine: input_exists,
                  \* output_parent_exists, header, cpu_count
  requested,      \* the arguments as parse_args returned them
  args,           \* the argparse namespace, which _validate_args rewrites
  mpc,            \* position in multiple_association_study
  error,          \* the exception that ended the run, "" when none
  logger_ready,   \* setup_logger has run
  limits,         \* <<>>, then <<what _load_and_limit was called with>>
  run_kwargs      \* <<>>, then <<the arguments run_mas was called with>>

VARIABLES
  \* PhewasFrame
  df,             \* self._df: [cols: column names, rows: one function per row]
  call,           \* <<>>, then <<the method called and its arguments>>
  out,            \* <<>>, then <<[raised, frame]>>: what the call gave back
  printed         \* what the call printed: the counts of its messages

frameVars == <<df, call, out, printed>>

VARIABLES
  \* aurora
  ainput,         \* the arguments of aurora() and the table read from input
  apc,            \* position in aurora(): "idle", "read", "preprocess",
                  \* "associate", "print", "done" or "raised"
  stages,         \* the preprocessing stages that have completed, in order
  aerror,         \* the exception that ended aurora(), "" when none
  assoc_kwargs,   \* <<>>, then <<the arguments run_associations was called with>>
  shown           \* print(output) has run

auroraVars == <<ainput, apc, stages, aerror, assoc_kwargs, shown>>

idxVars == <<indices, matched>>

mainVars == <<env, requested, args, mpc, error, logger_ready, limits, run_kwargs>>

vars == <<firthVars, idxVars, mainVars, frameVars, auroraVars>>

notFirthVars == <<idxVars, mainVars, frameVars, auroraVars>>

notIdxVars == <<firthVars, mainVars, frameVars, auroraVars>>

notMainVars == <<firthVars, idxVars, frameVars, auroraVars>>

notFrameVars == <<firthVars, idxVars, mainVars, auroraVars>>

notAuroraVars == <<firthVars, idxVars, mainVars, frameVars>>

\* The parts of the program a specification does not exercise stay put.
IdleFirth ==
  /\ regframe = <<>>
  /\ min_cases = 0
  /\ fpc = "idle"
  /\ X = <<>>
  /\ output_struct = <<>>
  /\ fl = <<>>
  /\ exc = <<>>
  /\ raised = <<>>
  /\ results = <<>>
  /\ escaped = FALSE

IdleIdx ==
  /\ indices = <<>>
  /\ matched = <<>>

IdleFrame ==
  /\ df = <<>>
  /\ call = <<>>
  /\ out = <<>>
  /\ printed = <<>>

IdleAurora ==
  /\ ainput = <<>>
  /\ apc = "idle"
  /\ stages = <<>>
  /\ aerror = ""
  /\ assoc_kwargs = <<>>
  /\ shown = FALSE

IdleMain ==
  /\ env = <<>>
  /\ requested = <<>>
  /\ args = <<>>
  /\ mpc = "idle"
  /\ error = ""
  /\ logger_ready = FALSE
  /\ limits = <<>>
  /\ run_kwargs = <<>>

\* ------------------------------------------- polars_firth_regression
\* float("nan"): a missing number. A present number v is <<v>>.
NaN == <<>>

\* The string "nan" that failed_reason starts with: no failure recorded.
NoFailure == "nan"

ConstantPredictorReason == "Predictor removed due to constant values"

\* independents: the predictor's value column first, then the covariates.
independents == <<"x", "c">>

dependent_values == "y"

StatFields == {"pval", "beta", "se", "OR", "ci_low", "ci_high"}

CountFields == {"cases", "controls", "total_n"}

AllFields == StatFields \cup CountFields \cup {"failed_reason"}

InitialOutputStruct ==
  [pval |-> NaN, beta |-> NaN, se |-> NaN, OR |-> NaN, ci_low |-> NaN,
   ci_high |-> NaN, cases |-> NaN, controls |-> NaN, total_n |-> NaN,
   failed_reason |-> NoFailure]

\* A column is constant when it holds a single distinct value.
IsConstant(col) == Cardinality(Range(col)) = 1

\* The independents of the group that are not constant within the group.
check_grouped_independents_for_constants(frame, cols) ==
  SelectSeq(cols, LAMBDA c : ~IsConstant(frame[c]))

\* y.sum(), y.shape[0] and their difference.
GroupCounts(y) ==
  [cases |-> Sum(y), controls |-> Len(y) - Sum(y), total_n |-> Len(y)]

\* np.e ** coef, kept symbolic.
Exp(v) == [exp |-> v]

\* What a fitted model exposes: pvals_, coef_, bse_ and ci_ of term 0.
FitResults ==
  { [pvals_ |-> 1, coef_ |-> 2, bse_ |-> 3, ci_ |-> <<4, 5>>],
    [pvals_ |-> 6, coef_ |-> 7, bse_ |-> 8, ci_ |-> <<9, 10>>] }

\* Messages of the exceptions the fitting strategy raises (str(e)).
FitErrors == {"", "singular matrix"}

\* Message of the exception a failed read of a fitted attribute raises.
ReadErrors == {"no attribute"}

\* The six statistics in the order the dict literal evaluates them.
StatOrder == <<"pval", "beta", "se", "OR", "ci_low", "ci_high">>

StatValue(f, name) ==
  CASE name = "pval" -> <<f.pvals_>>
    [] name = "beta" -> <<f.coef_>>
    [] name = "se" -> <<f.bse_>>
    [] name = "OR" -> <<Exp(f.coef_)>>
    [] name = "ci_low" -> <<f.ci_[1]>>
    [] name = "ci_high" -> <<f.ci_[2]>>

\* A buggy variant: every statistic is stored as soon as it is read, so a
\* read that raises after k reads leaves the first k statistics behind.
UpdateStatsEagerly(os, f, k) ==
  [n \in DOMAIN os |->
     IF \E i \in 1..k : StatOrder[i] = n THEN StatValue(f, n) ELSE os[n]]

\* output_struct.update({...}) of the six statistics when k of the six reads
\* succeed: the dict literal is evaluated in full before update is called, so
\* nothing is stored unless all six reads succeed.
UpdateStats(os, f, k) ==
  IF k = Len(StatOrder)
  THEN [n \in DOMAIN os |-> IF n \in StatFields THEN StatValue(f, n) ELSE os[n]]
  ELSE os

\* output_struct.update({"failed_reason": str(e)})
HandlerResult(os, msg) == [os EXCEPT !.failed_reason = msg]

Groups ==
  UNION { [x : SeqsOfLen({0, 1}, n), c : SeqsOfLen({0, 1}, n), y : SeqsOfLen({0, 1}, n)]
          : n \in 1..MaxGroupRows }

InitFirth ==
  /\ regframe \in Groups
  /\ min_cases \in 0..MaxMinCases
  /\ fpc = "select"
  /\ X = independents
  /\ output_struct = InitialOutputStruct
  /\ fl = <<>>
  /\ exc = <<>>
  /\ raised = <<>>
  /\ results = <<>>
  /\ escaped = FALSE
  /\ IdleIdx
  /\ IdleMain
  /\ IdleFrame
  /\ IdleAurora

\* Lines 38-51: unnest, drop the group-locally constant independents, and
\* return at once when the predictor is one of them.
FirthSelect ==
  /\ fpc = "select"
  /\ LET non_consts == check_grouped_independents_for_constants(regframe, independents)
     IN /\ X' = non_consts
        /\ IF independents[1] \notin Range(non_consts)
           THEN /\ output_struct' =
                     [output_struct EXCEPT !.failed_reason = ConstantPredictorReason]
                /\ results' = Append(results, output_struct')
                /\ fpc' = "done"
           ELSE /\ fpc' = "count"
                /\ UNCHANGED <<output_struct, results>>
  /\ UNCHANGED <<regframe, min_cases, fl, exc, raised, escaped>>
  /\ UNCHANGED notFirthVars

\* Lines 52-62: the counts of the group. The min_cases test of lines 63-72
\* is commented out in the source, so nothing is compared with min_cases.
FirthCount ==
  /\ fpc = "count"
  /\ LET n == GroupCounts(regframe[dependent_values])
     IN output_struct' = [output_struct EXCEPT !.cases = <<n.cases>>,
                                               !.controls = <<n.controls>>,
                                               !.total_n = <<n.total_n>>]
  /\ fpc' = "fit"
  /\ UNCHANGED <<regframe, min_cases, X, fl, exc, raised, results, escaped>>
  /\ UNCHANGED notFirthVars

\* Lines 75-76: the fit either returns a fitted model or raises.
FirthFit ==
  /\ fpc = "fit"
  /\ \/ /\ \E f \in FitResults : fl' = <<f>>
        /\ fpc' = "read"
        /\ UNCHANGED <<exc, raised>>
     \/ /\ \E m \in FitErrors : /\ exc' = <<m>>
                                /\ raised' = Append(raised, m)
        /\ fpc' = "except"
        /\ UNCHANGED fl
  /\ UNCHANGED <<regframe, min_cases, X, output_struct, results, escaped>>
  /\ UNCHANGED notFirthVars

\* Lines 78-89: read the six statistics; k of the reads succeed.
FirthRead ==
  /\ fpc = "read"
  /\ \E k \in 0..Len(StatOrder) :
       /\ output_struct' = UpdateStats(output_struct, fl[1], k)
       /\ IF k = Len(StatOrder)
          THEN /\ results' = Append(results, output_struct')
               /\ fpc' = "done"
               /\ UNCHANGED <<exc, raised>>
          ELSE /\ \E m \in ReadErrors : /\ exc' = <<m>>
                                        /\ raised' = Append(raised, m)
               /\ fpc' = "except"
               /\ UNCHANGED results
  /\ UNCHANGED <<regframe, min_cases, X, fl, escaped>>
  /\ UNCHANGED notFirthVars

\* A buggy variant: the handler lets the exception go on to the caller.
FirthExceptReraises ==
  /\ fpc = "except"
  /\ escaped' = TRUE
  /\ fpc' = "done"
  /\ UNCHANGED <<regframe, min_cases, X, output_struct, fl, exc, raised, results>>
  /\ UNCHANGED notFirthVars

\* Lines 90-93: except Exception as e.
FirthExcept ==
  /\ fpc = "except"
  /\ output_struct' = HandlerResult(output_struct, exc[1])
  /\ results' = Append(results, output_struct')
  /\ exc' = <<>>
  /\ fpc' = "done"
  /\ UNCHANGED <<regframe, min_cases, X, fl, raised, escaped>>
  /\ UNCHANGED notFirthVars

NextFirth == FirthSelect \/ FirthCount \/ FirthFit \/ FirthRead \/ FirthExcept

SpecFirth == InitFirth /\ [][NextFirth]_vars

\* ---------------------------------------------------------------- C1 .. C4
StatsMissing(r) == \A n \in StatFields : r[n] = NaN

StatsFromFit(r, f) == \A n \in StatFields : r[n] = StatValue(f, n) /\ r[n] # NaN

CountsOf(r, y) ==
  /\ r.cases = <<GroupCounts(y).cases>>
  /\ r.controls = <<GroupCounts(y).controls>>
  /\ r.total_n = <<GroupCounts(y).total_n>>

\* C1: every group yields exactly one record with all ten fields, whether
\* the fit succeeds or fails; an exception of the fitting strategy does not
\* leave the function, its message becomes failed_reason, and the record
\* carries the counts computed before the fit.
C1_OneCompleteRecord ==
  /\ ~escaped
  /\ Len(results) <= 1
  /\ fpc # "done" => ENABLED NextFirth
  /\ fpc = "done" =>
       /\ Len(results) = 1
       /\ DOMAIN results[1] = AllFields
       /\ raised # <<>> =>
            /\ results[1].failed_reason = raised[1]
            /\ CountsOf(results[1], regframe[dependent_values])

\* A fit that raised, answered with a record that holds the group's counts.
C1_Witness ==
  /\ fpc = "done"
  /\ raised = <<"singular matrix">>
  /\ Len(results) = 1
  /\ results[1].failed_reason = "singular matrix"
  /\ results[1].cases = <<2>>
  /\ results[1].total_n = <<3>>

\* C2: a group whose predictor is removed as group-locally constant gets the
\* constant-predictor reason, missing statistics, and the group's own counts
\* (cases = number of ones, total_n = rows, controls = total_n - cases).
C2_ConstantPredictorRecord ==
  (fpc = "done" /\ IsConstant(regframe[independents[1]])) =>
    /\ Len(results) = 1
    /\ results[1].failed_reason = ConstantPredictorReason
    /\ StatsMissing(results[1])
    /\ CountsOf(results[1], regframe[dependent_values])

C4_TooFewCasesLabeled ==
  (/\ fpc = "done"
   /\ ~IsConstant(regframe[independents[1]])
   /\ \/ GroupCounts(regframe[dependent_values]).cases < min_cases
      \/ GroupCounts(regframe[dependent_values]).controls < min_cases) =>
    /\ Len(results) = 1
    /\ results[1].failed_reason \notin {NoFailure, ""}
    /\ StatsMissing(results[1])
    /\ CountsOf(results[1], regframe[dependent_values])

\* ------------------------------------------- _match_columns_to_indices
\* Longest index expression drawn, in characters.
MaxIndexLen == 4

\* The header of the input file (_load_input_header).
Header == <<"a", "b", "c">>

Digits == {"0", "1", "2", "3"}

IndexChars == Digits \cup {"-", ","}

DigitValue(ch) ==
  CASE ch = "0" -> 0 [] ch = "1" -> 1 [] ch = "2" -> 2 [] ch = "3" -> 3

\* str.split(sep): the parts of s between the occurrences of sep.
RECURSIVE Split(_, _)
Split(s, sep) ==
  IF \A i \in DOMAIN s : s[i] # sep
  THEN <<s>>
  ELSE LET k == CHOOSE i \in DOMAIN s : s[i] = sep /\ \A j \in 1..(i - 1) : s[j] # sep
       IN <<SubSeq(s, 1, k - 1)>> \o Split(SubSeq(s, k + 1, Len(s)), sep)

\* str.isnumeric(): not empty, and digits only.
IsNumeric(s) == s # <<>> /\ \A i \in DOMAIN s : s[i] \in Digits

\* int(s) of a string of digits.
RECURSIVE ParseInt(_)
ParseInt(s) ==
  IF s = <<>> THEN 0 ELSE 10 * ParseInt(SubSeq(s, 1, Len(s) - 1)) + DigitValue(s[Len(s)])

\* int(s) raises ValueError unless s is a literal; here, a string of digits.
ParseIntRaises(s) == ~IsNumeric(s)

\* col_names[start:end] for 0 <= start, 0 <= end.
Slice(col_names, start, end) == SubSeq(col_names, start + 1, Min2(end, Len(col_names)))

Raised == [ok |-> FALSE, cols |-> <<>>]

Returned(cols) == [ok |-> TRUE, cols |-> cols]

\* Lines 286-300: a part that holds "-" and is not numeric. The unpacking
\* raises unless there are exactly two parts, and int(start) raises on "".
MatchRange(s, col_names) ==
  LET parts == Split(s, "-")
  IN IF Len(parts) # 2 THEN Raised
     ELSE IF ParseIntRaises(parts[1]) THEN Raised
     ELSE IF ParseInt(parts[1]) >= Len(col_names) THEN Raised
     ELSE IF parts[2] # <<>> /\ ParseIntRaises(parts[2]) THEN Raised
     ELSE IF parts[2] # <<>> /\ ParseInt(parts[2]) >= Len(col_names) THEN Raised
     ELSE IF parts[2] # <<>>
          THEN Returned(Slice(col_names, ParseInt(parts[1]), ParseInt(parts[2])))
          ELSE Returned(Slice(col_names, ParseInt(parts[1]), Len(col_names)))

\* Lines 280-302: an expression without a comma.
MatchOne(s, col_names) ==
  IF IsNumeric(s)
  THEN IF ParseInt(s) >= Len(col_names) THEN Raised ELSE Returned(<<col_names[ParseInt(s) + 1]>>)
  ELSE IF \E i \in DOMAIN s : s[i] = "-"
       THEN MatchRange(s, col_names)
       ELSE Raised

\* Lines 271-278: the loop over the comma-separated parts; empty parts are
\* skipped and the first part that raises ends the call.
RECURSIVE MatchParts(_, _)
MatchParts(splits, col_names) ==
  IF splits = <<>> THEN Returned(<<>>)
  ELSE IF Head(splits) = <<>> THEN MatchParts(Tail(splits), col_names)
  ELSE LET first == MatchOne(Head(splits), col_names)
           rest == MatchParts(Tail(splits), col_names)
       IN IF ~first.ok \/ ~rest.ok THEN Raised ELSE Returned(first.cols \o rest.cols)

\* Lines 268-302.
match_columns_to_indices(s, col_names) ==
  IF \E i \in DOMAIN s : s[i] = ","
  THEN MatchParts(Split(s, ","), col_names)
  ELSE MatchOne(s, col_names)

InitIdx ==
  /\ indices \in SeqsUpTo(IndexChars, MaxIndexLen) \ {<<>>}
  /\ matched = <<>>
  /\ IdleFirth
  /\ IdleMain
  /\ IdleFrame
  /\ IdleAurora

MatchColumns ==
  /\ matched = <<>>
  /\ indices # <<>>
  /\ matched' = <<match_columns_to_indices(indices, Header)>>
  /\ UNCHANGED indices
  /\ UNCHANGED notIdxVars

NextIdx == MatchColumns

SpecIdx == InitIdx /\ [][NextIdx]_vars

\* ----------------------------------------------------------------- C6
\* str(i) of a single-digit index.
Str(i) == CASE i = 0 -> <<"0">> [] i = 1 -> <<"1">> [] i = 2 -> <<"2">> [] i = 3 -> <<"3">>

\* The columns at the positions lo .. hi-1 of the header.
ColumnsAt(lo, hi) == [k \in 1..(hi - lo) |-> Header[lo + k]]

\* What the claim says of one part, as a set of <<part, columns>> pairs:
\* every part below selects only existing columns.
ClaimedParts ==
  {<<Str(i), <<Header[i + 1]>>>> : i \in 0..(Len(Header) - 1)}
  \cup {<<Str(lo) \o <<"-">> \o Str(hi), ColumnsAt(lo, hi)>> :
          lo \in 0..(Len(Header) - 1), hi \in 0..Len(Header)}
  \cup {<<Str(lo) \o <<"-">>, ColumnsAt(lo, Len(Header))>> : lo \in 0..(Len(Header) - 1)}
  \cup {<<<<"-">> \o Str(hi), ColumnsAt(0, hi)>> : hi \in 0..Len(Header)}

\* C6: an index expression resolves to the concatenation, in the order of
\* its comma-separated parts, of: the column i for `i`; the columns
\* start..end-1 for `start-end`; start..n-1 for `start-`; 0..end-1 for
\* `-end`; and every such part that selects only existing columns is accepted.
C6_IndexExpressionResolves ==
  matched # <<>> =>
    /\ \A p \in ClaimedParts :
         indices = p[1] => matched[1] = Returned(p[2])
    /\ \A p \in ClaimedParts : \A q \in ClaimedParts :
         indices = p[1] \o <<",">> \o q[1] => matched[1] = Returned(p[2] \o q[2])

\* The parts of the claim that the code does resolve as the claim says.
ResolvedParts ==
  {<<Str(i), <<Header[i + 1]>>>> : i \in 0..(Len(Header) - 1)}
  \cup {<<Str(lo) \o <<"-">> \o Str(hi), ColumnsAt(lo, hi)>> :
          lo \in 0..(Len(Header) - 1), hi \in 0..(Len(Header) - 1)}
  \cup {<<Str(lo) \o <<"-">>, ColumnsAt(lo, Len(Header))>> : lo \in 0..(Len(Header) - 1)}

\* What the code does: `i`, `start-`, and `start-end` with end < n resolve as
\* claimed and concatenate in order; `-end` and `start-n` are rejected.
IndexExpressionAsCoded ==
  matched # <<>> =>
    /\ \A p \in ResolvedParts :
         indices = p[1] => matched[1] = Returned(p[2])
    /\ \A p \in ResolvedParts : \A q \in ResolvedParts :
         indices = p[1] \o <<",">> \o q[1] => matched[1] = Returned(p[2] \o q[2])
    /\ \A p \in ClaimedParts \ ResolvedParts :
         indices = p[1] => matched[1] = Raised

\* ------------------------------------------- multiple_association_study
\* Longest list of column names drawn for an option.
MaxNames == 1
\* Largest thread count requested, and largest os.cpu_count().
MaxThreads == 3
MaxCpu == 2

\* Column names a user may type: two header columns and one that is not.
Names == {"a", "b", "zz"}

Fail(msg, a) == [err |-> msg, args |-> a]

Pass(a) == [err |-> "", args |-> a]

\* Lines 206-209.
CheckFiles(a, e) ==
  IF ~e.input_exists THEN Fail("FileNotFoundError: File not found", a)
  ELSE IF ~e.output_parent_exists
       THEN Fail("FileNotFoundError: Output directory not found", a)
       ELSE Pass(a)

\* Lines 214-215.
CheckPredictors(a, e) ==
  IF \E i \in DOMAIN a.predictors : a.predictors[i] \notin Range(e.header)
  THEN Fail("ValueError: Predictor column not found", a)
  ELSE Pass(a)

\* Lines 218-225.
CheckDependents(a, e) ==
  IF a.dependents # <<>>
  THEN IF \E i \in DOMAIN a.dependents : a.dependents[i] \notin Range(e.header)
       THEN Fail("ValueError: Dependent column not found", a)
       ELSE Pass(a)
  ELSE IF a.dependents_indices # <<>>
       THEN LET m == match_columns_to_indices(a.dependents_indices, e.header)
            IN IF m.ok THEN Pass([a EXCEPT !.dependents = m.cols])
               ELSE Fail("ValueError: dependents indices", a)
       ELSE Fail("ValueError: No dependent variables specified.", a)

\* A buggy variant: the covariate names are taken as given.
CheckCovariatesUnchecked(a, e) ==
  IF a.covariates # <<>>
  THEN Pass(a)
  ELSE IF a.covariates_indicies # <<>>
       THEN LET m == match_columns_to_indices(a.covariates_indicies, e.header)
            IN IF m.ok THEN Pass([a EXCEPT !.covariates = m.cols])
               ELSE Fail("ValueError: covariates indices", a)
       ELSE Pass([a EXCEPT !.covariates = <<>>])

\* Lines 228-235.
CheckCovariates(a, e) ==
  IF a.covariates # <<>>
  THEN IF \E i \in DOMAIN a.covariates : a.covariates[i] \notin Range(e.header)
       THEN Fail("ValueError: Covariate column not found", a)
       ELSE Pass(a)
  ELSE IF a.covariates_indicies # <<>>
       THEN LET m == match_columns_to_indices(a.covariates_indicies, e.header)
            IN IF m.ok THEN Pass([a EXCEPT !.covariates = m.cols])
               ELSE Fail("ValueError: covariates indices", a)
       ELSE Pass([a EXCEPT !.covariates = <<>>])

\* Lines 238-247.
CheckCategorical(a, e) ==
  IF a.categorical_covariates # <<>> /\ a.covariates = <<>>
  THEN Fail("ValueError: Categorical covariates specified without specifying covariates", a)
  ELSE IF a.categorical_covariates # <<>>
       THEN IF \E i \in DOMAIN a.categorical_covariates :
                 a.categorical_covariates[i] \notin Range(a.covariates)
            THEN Fail("ValueError: Categorical covariate column not found in given covariates", a)
            ELSE Pass(a)
       ELSE Pass([a EXCEPT !.categorical_covariates = <<>>])

\* A buggy variant: threads is compared with the polars_threads requested,
\* not with the value it was just clamped to.
ClampThreadsStale(a, e) ==
  LET pt == IF a.polars_threads > e.cpu_count THEN e.cpu_count ELSE a.polars_threads
      th == IF a.threads >= a.polars_threads THEN a.polars_threads ELSE a.threads
  IN Pass([a EXCEPT !.polars_threads = pt, !.threads = th])

\* Lines 250-259.
ClampThreads(a, e) ==
  LET pt == IF a.polars_threads > e.cpu_count THEN e.cpu_count ELSE a.polars_threads
      th == IF a.threads >= pt THEN pt ELSE a.threads
  IN Pass([a EXCEPT !.polars_threads = pt, !.threads = th])

\* Lines 205-259: one check after the other; the first that raises ends
\* _validate_args.
validate_args(a, e) ==
  LET files == CheckFiles(a, e)
      preds == IF files.err # "" THEN files ELSE CheckPredictors(files.args, e)
      deps == IF preds.err # "" THEN preds ELSE CheckDependents(preds.args, e)
      covs == IF deps.err # "" THEN deps ELSE CheckCovariates(deps.args, e)
      cats == IF covs.err # "" THEN covs ELSE CheckCategorical(covs.args, e)
  IN IF cats.err # "" THEN cats ELSE ClampThreads(cats.args, e)

\* The file system states drawn: all present, or one of the two missing.
FileStates ==
  { [input_exists |-> TRUE, output_parent_exists |-> TRUE],
    [input_exists |-> FALSE, output_parent_exists |-> TRUE],
    [input_exists |-> TRUE, output_parent_exists |-> FALSE] }

\* Index expressions drawn for --dependents-indices and --covariates-indicies
\* (<<>> is the option not given).
DependentIndexExprs == {<<>>, <<"1">>, <<"1", "-", "3">>}

CovariateIndexExprs == {<<>>, <<"0", "-", "2">>, <<"-", "1">>, <<",">>}

Environments(cpus) ==
  { [input_exists |-> f.input_exists, output_parent_exists |-> f.output_parent_exists,
     header |-> Header, cpu_count |-> c] : f \in FileStates, c \in cpus }

\* parse_args: the namespace of lines 18-172, as far as _validate_args and
\* _load_and_limit read it. An option that was not given is <<>>.
Namespaces(lists, depIdx, covIdx, threads, polars) ==
  [predictors : lists \ {<<>>}, dependents : lists, dependents_indices : depIdx,
   covariates : lists, covariates_indicies : covIdx, categorical_covariates : lists,
   threads : threads, polars_threads : polars]

InitMainWith(namespaces, environments) ==
  /\ env \in environments
  /\ requested \in namespaces
  /\ args = requested
  /\ mpc = "parsed"
  /\ error = ""
  /\ logger_ready = FALSE
  /\ limits = <<>>
  /\ run_kwargs = <<>>
  /\ IdleFirth
  /\ IdleIdx
  /\ IdleFrame
  /\ IdleAurora

\* The column options drawn widely; the thread options left at their
\* defaults (threads 1, polars_threads os.cpu_count()).
InitArgs ==
  InitMainWith(Namespaces(SeqsUpTo(Names, MaxNames), DependentIndexExprs,
                          CovariateIndexExprs, {1}, {MaxCpu}),
               Environments({MaxCpu}))

\* The thread options drawn widely; few column options.
InitThreads ==
  InitMainWith(Namespaces({<<>>, <<"a">>}, {<<>>}, {<<>>},
                          (-1)..MaxThreads, (-1)..MaxThreads),
               Environments(1..MaxCpu))

\* Line 173: _validate_args(args); an exception ends the program.
ValidateArgs ==
  /\ mpc = "parsed"
  /\ LET r == validate_args(args, env)
     IN /\ args' = r.args
        /\ error' = r.err
        /\ mpc' = IF r.err # "" THEN "raised" ELSE "validated"
  /\ UNCHANGED <<env, requested, logger_ready, limits, run_kwargs>>
  /\ UNCHANGED notMainVars

\* Line 174: setup_logger(args.output, args.verbose).
SetupLogger ==
  /\ mpc = "validated"
  /\ logger_ready' = TRUE
  /\ mpc' = "logged"
  /\ UNCHANGED <<env, requested, args, error, limits, run_kwargs>>
  /\ UNCHANGED notMainVars

\* Line 175 and lines 181-202: _load_and_limit(args.threads, args.polars_threads).
LoadAndLimit ==
  /\ mpc = "logged"
  /\ limits' = <<[threads |-> args.threads, polars_threads |-> args.polars_threads]>>
  /\ mpc' = "limited"
  /\ UNCHANGED <<env, requested, args, error, logger_ready, run_kwargs>>
  /\ UNCHANGED notMainVars

\* Line 178: run_mas(**vars(args)).
RunMas ==
  /\ mpc = "limited"
  /\ run_kwargs' = <<args>>
  /\ mpc' = "running"
  /\ UNCHANGED <<env, requested, args, error, logger_ready, limits>>
  /\ UNCHANGED notMainVars

NextMain == ValidateArgs \/ SetupLogger \/ LoadAndLimit \/ RunMas

SpecArgs == InitArgs /\ [][NextMain]_vars

SpecThreads == InitThreads /\ [][NextMain]_vars

Validated == mpc \in {"validated", "logged", "limited", "running"}

\* ----------------------------------------------------------------- C5
\* C5: after _validate_args returns, threads <= polars_threads <= cpu_count,
\* polars_threads = min(requested polars_threads, cpu_count), threads =
\* min(requested threads, resulting polars_threads), and _load_and_limit is
\* called with these clamped values.
C5_ThreadsClamped ==
  Validated =>
    /\ args.threads <= args.polars_threads
    /\ args.polars_threads <= env.cpu_count
    /\ args.polars_threads = Min2(requested.polars_threads, env.cpu_count)
    /\ args.threads = Min2(requested.threads, args.polars_threads)
    /\ limits # <<>> =>
         /\ limits[1].threads = Min2(requested.threads, args.polars_threads)
         /\ limits[1].polars_threads = Min2(requested.polars_threads, env.cpu_count)

\* Both requests exceeded their ceilings and _load_and_limit got the
\* clamped values.
C5_Witness ==
  /\ mpc = "limited"
  /\ requested.polars_threads > env.cpu_count
  /\ requested.threads > env.cpu_count
  /\ limits = <<[threads |-> env.cpu_count, polars_threads |-> env.cpu_count]>>

\* ----------------------------------------------------------------- C7
\* The index expression of an option is consulted only when the option's
\* name list was not given.
Consulted(names, expr) == names = <<>> /\ expr # <<>>

\* An index expression with a part that is no index, no range, or that
\* points past the header.
WellFormedParts ==
  {Str(i) : i \in 0..(Len(Header) - 1)}
  \cup {Str(lo) \o <<"-">> \o Str(hi) : lo \in 0..(Len(Header) - 1), hi \in 0..(Len(Header) - 1)}
  \cup {Str(lo) \o <<"-">> : lo \in 0..(Len(Header) - 1)}
  \cup {<<>>}

InvalidIndexExpr(expr) ==
  \E i \in DOMAIN Split(expr, ",") : Split(expr, ",")[i] \notin WellFormedParts

\* The columns a well-formed index expression names, read off part by part.
RECURSIVE ColumnsOfParts(_)
ColumnsOfParts(parts) ==
  IF parts = <<>> THEN <<>>
  ELSE IF Head(parts) = <<>> THEN ColumnsOfParts(Tail(parts))
  ELSE (CHOOSE p \in ResolvedParts : p[1] = Head(parts))[2] \o ColumnsOfParts(Tail(parts))

\* The covariates the user asked for, by name or else by index expression.
CovariatesAskedFor(r) ==
  IF r.covariates # <<>> THEN r.covariates
  ELSE IF InvalidIndexExpr(r.covariates_indicies) THEN <<>>
  ELSE ColumnsOfParts(Split(r.covariates_indicies, ","))

NotInHeader(names) == \E i \in DOMAIN names : names[i] \notin Range(Header)

\* The inputs for which the claim says _validate_args raises.
Unresolvable(r, e) ==
  \/ ~e.input_exists
  \/ ~e.output_parent_exists
  \/ NotInHeader(r.predictors)
  \/ NotInHeader(r.dependents)
  \/ NotInHeader(r.covariates)
  \/ r.dependents = <<>> /\ r.dependents_indices = <<>>
  \/ Consulted(r.dependents, r.dependents_indices) /\ InvalidIndexExpr(r.dependents_indices)
  \/ Consulted(r.covariates, r.covariates_indicies) /\ InvalidIndexExpr(r.covariates_indicies)
  \/ \E i \in DOMAIN r.categorical_covariates :
       r.categorical_covariates[i] \notin Range(CovariatesAskedFor(r))

\* C7: column-role resolution is fail-fast. For a missing input file or
\* output directory, a predictor, dependent or covariate name that is no
\* header column, no dependents, an invalid index range, or a categorical
\* covariate that is no covariate, _validate_args raises and neither the
\* logger setup, nor the thread configuration, nor the run is reached; and
\* whenever it returns, every predictor, dependent and covariate is a header
\* column and the categorical covariates are among the covariates.
C7_FailFastResolution ==
  /\ (mpc # "parsed" /\ mpc # "idle" /\ Unresolvable(requested, env)) =>
       /\ mpc = "raised"
       /\ error # ""
       /\ ~logger_ready
       /\ limits = <<>>
       /\ run_kwargs = <<>>
  /\ mpc = "raised" => ~ENABLED NextMain
  /\ Validated =>
       /\ Range(args.predictors) \subseteq Range(env.header)
       /\ Range(args.dependents) \subseteq Range(env.header)
       /\ Range(args.covariates) \subseteq Range(env.header)
       /\ Range(args.categorical_covariates) \subseteq Range(args.covariates)

\* A covariate name that is no header column stopped the program before the
\* logger was set up.
C7_Witness ==
  /\ mpc = "raised"
  /\ error = "ValueError: Covariate column not found"
  /\ requested.covariates = <<"zz">>
  /\ ~logger_ready
  /\ limits = <<>>

\* The other direction: a run that started, with its roles resolved from an
\* index expression.
C7_WitnessReturned ==
  /\ mpc = "running"
  /\ requested.dependents = <<>>
  /\ args.dependents = <<"b">>
  /\ args.covariates = <<"a", "b">>
  /\ args.categorical_covariates = <<"a">>

\* ------------------------------------------------------- PhewasFrame
\* Largest number of rows of a frame.
MaxFrameRows == 2

\* A null cell. A cell that holds v is <<v>>.
Null == <<>>

Cells == {Null, <<0>>, <<1>>}

\* The columns of the frames drawn, and all names in sorted() order.
FrameColumns == <<"x", "c", "d">>

SortedNames == <<"c", "d", "x">>

Frames ==
  { [cols |-> FrameColumns, rows |-> r] :
      r \in SeqsUpTo([Range(FrameColumns) -> Cells], MaxFrameRows) }

Column(frame, c) == [i \in DOMAIN frame.rows |-> frame.rows[i][c]]

Height(frame) == Len(frame.rows)

\* The non-null values of a column, in order.
NonNull(col) == SelectSeq(col, LAMBDA v : v # Null)

RECURSIVE SumCells(_)
SumCells(col) == IF col = <<>> THEN 0 ELSE Head(col)[1] + SumCells(Tail(col))

RECURSIVE MinCells(_)
MinCells(col) ==
  IF Len(col) = 1 THEN Head(col)[1] ELSE Min2(Head(col)[1], MinCells(Tail(col)))

RECURSIVE MaxCells(_)
MaxCells(col) ==
  IF Len(col) = 1 THEN Head(col)[1]
  ELSE IF Head(col)[1] >= MaxCells(Tail(col)) THEN Head(col)[1] ELSE MaxCells(Tail(col))

\* A buggy variant: rows with a null in any column are dropped.
drop_nulls_everywhere(frame, subset) ==
  [frame EXCEPT !.rows =
     SelectSeq(frame.rows, LAMBDA r : \A c \in Range(frame.cols) : r[c] # Null)]

\* DataFrame.drop_nulls(subset): the rows without a null in a subset column.
drop_nulls(frame, subset) ==
  [frame EXCEPT !.rows =
     SelectSeq(frame.rows, LAMBDA r : \A c \in Range(subset) : r[c] # Null)]

\* The value a fill strategy puts in row i of a column.
FillValue(col, i, strategy) ==
  LET before == {j \in 1..(i - 1) : col[j] # Null}
      after == {j \in (i + 1)..Len(col) : col[j] # Null}
      present == NonNull(col)
  IN CASE strategy = "forward" ->
            IF before = {} THEN Null ELSE col[CHOOSE j \in before : \A k \in before : k <= j]
       [] strategy = "backward" ->
            IF after = {} THEN Null ELSE col[CHOOSE j \in after : \A k \in after : j <= k]
       [] strategy = "min" -> IF present = <<>> THEN Null ELSE <<MinCells(present)>>
       [] strategy = "max" -> IF present = <<>> THEN Null ELSE <<MaxCells(present)>>
       [] strategy = "mean" ->
            IF present = <<>> THEN Null ELSE <<SumCells(present) \div Len(present)>>
       [] strategy = "zero" -> <<0>>
       [] strategy = "one" -> <<1>>

\* fill_null(subset, strategy): the nulls of the subset columns are filled.
fill_null(frame, subset, strategy) ==
  [frame EXCEPT !.rows =
     [i \in DOMAIN frame.rows |->
        [c \in DOMAIN frame.rows[i] |->
           IF c \in Range(subset) /\ frame.rows[i][c] = Null
           THEN FillValue(Column(frame, c), i, strategy)
           ELSE frame.rows[i][c]]]]

\* The default of the method argument.
None == "<None>"

\* Line 54.
valid_strategies == <<None, "forward", "backward", "min", "max", "mean", "zero", "one">>

\* Lines 54-69: [raised, frame, printed].
handle_missing(frame, predictors, method) ==
  IF method \notin Range(valid_strategies)
  THEN [raised |-> "ValueError: Unknown method", frame |-> <<>>, printed |-> <<>>]
  ELSE IF method = None
       THEN LET new_df == drop_nulls(frame, predictors)
            IN [raised |-> "", frame |-> new_df,
                printed |-> IF Height(new_df) # Height(frame)
                            THEN <<Height(frame) - Height(new_df)>> ELSE <<>>]
       ELSE [raised |-> "", frame |-> fill_null(frame, predictors, method),
             printed |-> <<>>]

\* Lines 72-79 for one phenotype: sum(), count() and their difference.
PhenotypeCounts(frame, p) ==
  LET present == NonNull(Column(frame, p))
  IN [cases |-> SumCells(present), controls |-> Len(present) - SumCells(present),
      total |-> Len(present)]

\* A buggy variant: only the cases are compared with min_cases.
IsValidPhenotypeCasesOnly(frame, p, least) == PhenotypeCounts(frame, p).cases >= least

\* Line 89.
IsValidPhenotype(frame, p, least) ==
  PhenotypeCounts(frame, p).cases >= least /\ PhenotypeCounts(frame, p).controls >= least

\* Line 86.
IsInvalidPhenotype(frame, p, least) ==
  PhenotypeCounts(frame, p).cases < least \/ PhenotypeCounts(frame, p).controls < least

\* sorted(names) of a set of names.
Sorted(names) == SelectSeq(SortedNames, LAMBDA n : n \in names)

\* Lines 72-91: [raised, frame, printed].
filter_by_count(frame, phenotypes, least) ==
  LET invalid_phenos == SelectSeq(phenotypes, LAMBDA p : IsInvalidPhenotype(frame, p, least))
      valid_phenos == SelectSeq(phenotypes, LAMBDA p : IsValidPhenotype(frame, p, least))
      valid_cols == Sorted(Range(phenotypes) \cap Range(valid_phenos))
      kept == SelectSeq(frame.cols, LAMBDA c : c \notin Range(phenotypes)) \o valid_cols
  IN [raised |-> "",
      frame |-> [cols |-> kept,
                 rows |-> [i \in DOMAIN frame.rows |->
                             [c \in Range(kept) |-> frame.rows[i][c]]]],
      printed |-> IF Len(invalid_phenos) > 0 THEN <<Len(invalid_phenos)>> ELSE <<>>]

\* The arguments drawn.
PredictorLists == {<<"x">>, <<"x", "c">>}

PhenotypeLists == {<<"d">>, <<"d", "c">>, <<"c", "d">>}

Methods == Range(valid_strategies) \cup {"drop", "median"}

InitFrame ==
  /\ df \in Frames
  /\ call = <<>>
  /\ out = <<>>
  /\ printed = <<>>
  /\ IdleFirth
  /\ IdleIdx
  /\ IdleMain
  /\ IdleAurora

HandleMissing ==
  /\ call = <<>>
  /\ \E predictors \in PredictorLists, method \in Methods :
       LET r == handle_missing(df, predictors, method)
       IN /\ call' = <<[op |-> "handle_missing", columns |-> predictors,
                        method |-> method, min_cases |-> 0]>>
          /\ out' = <<[raised |-> r.raised, frame |-> r.frame]>>
          /\ printed' = r.printed
  /\ UNCHANGED df
  /\ UNCHANGED notFrameVars

FilterByCount ==
  /\ call = <<>>
  /\ \E phenotypes \in PhenotypeLists, least \in 0..MaxMinCases :
       LET r == filter_by_count(df, phenotypes, least)
       IN /\ call' = <<[op |-> "filter_by_count", columns |-> phenotypes,
                        method |-> None, min_cases |-> least]>>
          /\ out' = <<[raised |-> r.raised, frame |-> r.frame]>>
          /\ printed' = r.printed
  /\ UNCHANGED df
  /\ UNCHANGED notFrameVars

NextFrame == HandleMissing \/ FilterByCount

SpecFrame == InitFrame /\ [][NextFrame]_vars

\* ----------------------------------------------------------------- C8
Called(op) == call # <<>> /\ call[1].op = op

\* The rows of a frame in which column c holds v.
RowsWith(frame, c, v) == {i \in DOMAIN frame.rows : frame.rows[i][c] = <<v>>}

\* A phenotype with at least `least` cases (ones) and controls (zeros).
Countable(frame, p, least) ==
  /\ Cardinality(RowsWith(frame, p, 1)) >= least
  /\ Cardinality(RowsWith(frame, p, 0)) >= least

\* C8: filter_by_count retains exactly the phenotype columns whose case
\* count and control count are both >= min_cases, decides once per column,
\* reports the number excluded when it is positive, and leaves every
\* non-phenotype column (and every row) in the result.
C8_FilterByCount ==
  Called("filter_by_count") =>
    LET phenotypes == Range(call[1].columns)
        least == call[1].min_cases
        result == out[1].frame
        excluded == {p \in phenotypes : ~Countable(df, p, least)}
    IN /\ out[1].raised = ""
       /\ \A p \in phenotypes : p \in Range(result.cols) <=> Countable(df, p, least)
       /\ \A c \in Range(df.cols) \ phenotypes : c \in Range(result.cols)
       /\ Range(result.cols) \subseteq Range(df.cols)
       /\ Len(result.cols) = Cardinality(Range(result.cols))
       /\ Height(result) = Height(df)
       /\ \A i \in DOMAIN df.rows : \A c \in Range(result.cols) :
            result.rows[i][c] = df.rows[i][c]
       /\ printed = IF excluded = {} THEN <<>> ELSE <<Cardinality(excluded)>>

\* One phenotype kept, one dropped for its controls, and the drop reported.
C8_Witness ==
  /\ Called("filter_by_count")
  /\ call[1].columns = <<"d", "c">>
  /\ call[1].min_cases = 1
  /\ Cardinality(RowsWith(df, "c", 1)) = 2
  /\ out[1].frame.cols = <<"x", "d">>
  /\ printed = <<1>>

\* ----------------------------------------------------------------- C9
NoNullIn(row, columns) == \A c \in Range(columns) : row[c] # Null

\* s is t with some elements left out, the rest in their order.
RECURSIVE IsSubsequence(_, _)
IsSubsequence(s, t) ==
  IF s = <<>> THEN TRUE
  ELSE IF t = <<>> THEN FALSE
  ELSE IF Head(s) = Head(t) THEN IsSubsequence(Tail(s), Tail(t))
  ELSE IsSubsequence(s, Tail(t))

\* C9: with the drop strategy handle_missing returns exactly the rows
\* without a null in an independent column, in their order and unchanged
\* (a null in a dependent keeps the row), and the count it reports is
\* rows_before - rows_after.
C9_DropMissing ==
  (Called("handle_missing") /\ call[1].method = None) =>
    LET given == call[1].columns
        result == out[1].frame
        complete == {i \in DOMAIN df.rows : NoNullIn(df.rows[i], given)}
    IN /\ out[1].raised = ""
       /\ result.cols = df.cols
       /\ \A i \in DOMAIN result.rows : NoNullIn(result.rows[i], given)
       /\ IsSubsequence(result.rows, df.rows)
       /\ Height(result) = Cardinality(complete)
       /\ printed = IF Height(df) = Height(result) THEN <<>>
                    ELSE <<Height(df) - Height(result)>>

\* A row with a null dependent is kept, a row with a null independent is
\* dropped, and one dropped row is reported.
C9_Witness ==
  /\ Called("handle_missing")
  /\ call[1].method = None
  /\ call[1].columns = <<"x", "c">>
  /\ Height(df) = 2
  /\ df.rows[1]["c"] = Null
  /\ df.rows[2]["d"] = Null
  /\ out[1].frame.rows = <<df.rows[2]>>
  /\ printed = <<1>>

\* ----------------------------------------------------------------- aurora
\* A buggy variant: the missing values are handled before the dependents
\* are validated.
PipelineMissingFirst ==
  <<"check_independents_for_constants", "handle_missing_values", "validate_dependents",
    "category_to_dummy", "transform_continuous", "melt", "phewas_filter">>

\* Lines 35-44: the preprocessing methods in the order they are chained.
Pipeline ==
  <<"check_independents_for_constants", "validate_dependents", "handle_missing_values",
    "category_to_dummy", "transform_continuous", "melt", "phewas_filter">>

\* Lines 30-31, for the one predictor, no covariate and one dependent drawn.
AuroraPredictors == <<"x">>

AuroraDependents == <<"d">>

AuroraIndependents == AuroraPredictors

AuroraFrames ==
  { [cols |-> AuroraPredictors \o AuroraDependents, rows |-> r] :
      r \in SeqsUpTo([Range(AuroraPredictors \o AuroraDependents) -> Cells \cup {<<2>>}],
                     MaxFrameRows) }

\* The constant check: an independent column with a single distinct
\* non-null value.
HasConstantIndependent(frame, cols) ==
  \E c \in Range(cols) : Cardinality(Range(NonNull(Column(frame, c)))) = 1

\* The dependent validation: in binary mode the non-null values of every
\* dependent are among 0 and 1; the numbers drawn are all numeric.
DependentsValid(frame, cols, quantitative) ==
  quantitative \/
    \A c \in Range(cols) : Range(NonNull(Column(frame, c))) \subseteq {<<0>>, <<1>>}

\* The names the missing-value and the transform stage know.
MissingStrategies == {"drop", "forward", "backward", "min", "max", "mean", "zero", "one"}

TransformKinds == {"none", "standard", "min-max"}

\* Whether a preprocessing stage raises on the given input.
StageRaises(stage, a) ==
  CASE stage = "check_independents_for_constants" ->
         HasConstantIndependent(a.frame, AuroraIndependents)
    [] stage = "validate_dependents" ->
         ~DependentsValid(a.frame, AuroraDependents, a.quantitative)
    [] stage = "handle_missing_values" -> a.missing \notin MissingStrategies
    [] stage = "transform_continuous" -> a.transform \notin TransformKinds
    [] OTHER -> FALSE

AuroraInputs ==
  [frame : AuroraFrames, quantitative : BOOLEAN, missing : {"drop", "median"},
   transform : {"none", "log"}]

InitAurora ==
  /\ ainput \in AuroraInputs
  /\ apc = "read"
  /\ stages = <<>>
  /\ aerror = ""
  /\ assoc_kwargs = <<>>
  /\ shown = FALSE
  /\ IdleFirth
  /\ IdleIdx
  /\ IdleMain
  /\ IdleFrame

\* Lines 25-33: read the input and select the columns.
ReadAndSelect ==
  /\ apc = "read"
  /\ apc' = "preprocess"
  /\ UNCHANGED <<ainput, stages, aerror, assoc_kwargs, shown>>
  /\ UNCHANGED notAuroraVars

\* Lines 35-44: the next method of the chain runs on what the one before it
\* returned; an exception ends aurora().
RunStage ==
  /\ apc = "preprocess"
  /\ LET stage == Pipeline[Len(stages) + 1]
     IN IF StageRaises(stage, ainput)
        THEN /\ aerror' = stage
             /\ apc' = "raised"
             /\ UNCHANGED stages
        ELSE /\ stages' = Append(stages, stage)
             /\ apc' = IF Len(stages') = Len(Pipeline) THEN "associate" ELSE "preprocess"
             /\ UNCHANGED aerror
  /\ UNCHANGED <<ainput, assoc_kwargs, shown>>
  /\ UNCHANGED notAuroraVars

\* Lines 46-55: run_associations on the preprocessed frame.
RunAssociations ==
  /\ apc = "associate"
  /\ assoc_kwargs' = <<[independents |-> AuroraIndependents,
                        quantitative |-> ainput.quantitative]>>
  /\ apc' = "print"
  /\ UNCHANGED <<ainput, stages, aerror, shown>>
  /\ UNCHANGED notAuroraVars

\* Line 56: print(output).
PrintOutput ==
  /\ apc = "print"
  /\ shown' = TRUE
  /\ apc' = "done"
  /\ UNCHANGED <<ainput, stages, aerror, assoc_kwargs>>
  /\ UNCHANGED notAuroraVars

NextAurora == ReadAndSelect \/ RunStage \/ RunAssociations \/ PrintOutput

SpecAurora == InitAurora /\ [][NextAurora]_vars

\* ----------------------------------------------------------------- C10
\* The order the claim gives: constant check, dependent validation,
\* missing-value handling, dummy encoding, continuous transform, melt,
\* PheWAS filter.
ClaimedOrder ==
  <<"check_independents_for_constants", "validate_dependents", "handle_missing_values",
    "category_to_dummy", "transform_continuous", "melt", "phewas_filter">>

IsPrefix(s, t) == Len(s) <= Len(t) /\ s = SubSeq(t, 1, Len(s))

ConstantInput == HasConstantIndependent(ainput.frame, <<"x">>)

InvalidDependentInput ==
  /\ ~ainput.quantitative
  /\ \E i \in DOMAIN ainput.frame.rows : ainput.frame.rows[i]["d"] = <<2>>

\* C10: the preprocessing stages run strictly in the claimed order and
\* run_associations starts only after all of them have completed; when the
\* constant check or the dependent validation raises, no later stage and no
\* association run starts, and no output is produced.
C10_StagesInOrder ==
  apc # "idle" =>
    /\ IsPrefix(stages, ClaimedOrder)
    /\ (assoc_kwargs # <<>> \/ shown) => stages = ClaimedOrder
    /\ (ConstantInput /\ (apc # "preprocess" \/ stages # <<>>) /\ apc # "read") =>
         /\ apc = "raised"
         /\ stages = <<>>
         /\ assoc_kwargs = <<>>
         /\ ~shown
    /\ (~ConstantInput /\ InvalidDependentInput
          /\ (apc # "preprocess" \/ Len(stages) > 1) /\ apc # "read") =>
         /\ apc = "raised"
         /\ stages = <<"check_independents_for_constants">>
         /\ assoc_kwargs = <<>>
         /\ ~shown
    /\ apc = "raised" => ~ENABLED NextAurora

\* The dependent validation raised after the constant check had passed.
C10_Witness ==
  /\ apc = "raised"
  /\ aerror = "validate_dependents"
  /\ stages = <<"check_independents_for_constants">>
  /\ assoc_kwargs = <<>>

\* A run in which every stage completed before the associations started.
C10_WitnessRun ==
  /\ apc = "done"
  /\ stages = ClaimedOrder
  /\ assoc_kwargs # <<>>

\* ----------------------------------------------------------------- C11
\* The choices of --missing on the command line, and its default.
MissingChoices == {"drop", "forward", "backward", "min", "max", "mean", "zero", "one"}

MissingDefault == "drop"

\* C11: the strategy names handle_missing accepts are exactly the documented
\* ones the command line offers (drop, forward, backward, min, max, mean,
\* zero, one): each of them is handled without an unknown-strategy error,
\* and any other name raises a ValueError and no frame is returned.
C11_DocumentedStrategiesAccepted ==
  (Called("handle_missing") /\ call[1].method # None) =>
    /\ call[1].method \in MissingChoices =>
         (out[1].raised = "" /\ out[1].frame # <<>>)
    /\ call[1].method \notin MissingChoices =>
         (out[1].raised = "ValueError: Unknown method" /\ out[1].frame = <<>>)

\* What the code does with the names: the seven fill strategies are
\* accepted, and "drop", the command line's default, is refused like any
\* unknown name (dropping is method=None).
StrategyNamesAsCoded ==
  (Called("handle_missing") /\ call[1].method # None) =>
    (out[1].raised = "" <=> call[1].method \in MissingChoices \ {MissingDefault})

\* ----------------------------------------------------------------- C12
\* Line 30 of aurora(): selected_columns = predictors + covariates + dependents.
selected_columns(kw) == kw.predictors \o kw.covariates \o kw.dependents

NoDuplicates(s) == Len(s) = Cardinality(Range(s))

\* C12: whenever _validate_args succeeds and the run starts, no column is
\* both a predictor and a dependent, a covariate and a dependent, or a
\* predictor and a covariate, so predictors + covariates + dependents holds
\* no name twice.
C12_RolesDisjoint ==
  mpc = "running" =>
    LET kw == run_kwargs[1]
    IN /\ Range(kw.predictors) \cap Range(kw.dependents) = {}
       /\ Range(kw.covariates) \cap Range(kw.dependents) = {}
       /\ Range(kw.predictors) \cap Range(kw.covariates) = {}
       /\ NoDuplicates(selected_columns(kw))

====
